---- MODULE Spec2Model ----
(***************************************************************************)
(* Model of Term::BaseTerminal (src/terminal_base.h): the raw-mode         *)
(* terminal session of cpp-terminal.  Both compile-time branches of the    *)
(* header are modelled; `platform` selects the branch the build compiled.  *)
(*                                                                         *)
(* The terminal device (its mode, its input queue, its window size) is the *)
(* environment the class acts on.  Mode words are modelled as the set of   *)
(* flag names that are set in them: x | F is x \cup F, x & ~F is x \ F.    *)
(***************************************************************************)
EXTENDS Integers, Sequences, FiniteSets, TLC

\* Most bytes that may be pending in the terminal's input queue.
MaxPending == 2
\* Most destructor runs on one object (the second and later ones are runs
\* on an object that was already destroyed).
MaxReleases == 2

\* Bytes a key press may deliver: ETX (Ctrl-C), CR, ESC, and 0xE1 (a byte
\* with the 8th bit set; 0x61 with it stripped).
Bytes == {3, 13, 27, 225}

\* The byte the terminal driver treats as the interrupt character (VINTR).
IntrBytes == {3}

Platforms == {"posix", "win32"}

--------------------------------------------------------------------------
(* POSIX termios flag groups named in the constructor. *)

CS8 == {"CS6", "CS7"}    \* CS8 is both bits of the CSIZE field

\* raw.c_iflag &= ~(BRKINT | ICRNL | INPCK | ISTRIP | IXON)
RawIflagOff == {"BRKINT", "ICRNL", "INPCK", "ISTRIP", "IXON"}

\* raw.c_lflag &= ~(ECHO | ICANON | IEXTEN)
RawLflagOff == {"ECHO", "ICANON", "IEXTEN"}

(* Windows console mode groups named in the constructor. *)

dwRequestedOutModes ==
    {"ENABLE_VIRTUAL_TERMINAL_PROCESSING", "DISABLE_NEWLINE_AUTO_RETURN"}

dwRequestedInModes == {"ENABLE_VIRTUAL_TERMINAL_INPUT"}

InModesOff == {"ENABLE_LINE_INPUT", "ENABLE_ECHO_INPUT"}

--------------------------------------------------------------------------
(* Terminal configurations the program may be started under. *)

TermiosOf(i, o, c, l, vmin, vtime) ==
    [c_iflag |-> i, c_oflag |-> o, c_cflag |-> c, c_lflag |-> l,
     VMIN |-> vmin, VTIME |-> vtime]

PosixModes ==
    { \* a login shell's line-edited mode ("stty sane")
      TermiosOf({"BRKINT", "ICRNL", "IXON"}, {"OPOST", "ONLCR"},
                CS8 \cup {"CREAD"}, {"ECHO", "ICANON", "IEXTEN", "ISIG"}, 1, 0),
      \* a 7-bit line with parity that ignores carriage returns
      TermiosOf({"ICRNL", "INPCK", "ISTRIP", "IGNCR"}, {"OPOST"},
                {"CS7", "PARENB"}, {"ECHO", "ICANON", "ISIG"}, 1, 0),
      \* character-at-a-time input with signals, blocking
      TermiosOf({"ISTRIP"}, {"OPOST", "ONLCR"},
                CS8 \cup {"CREAD"}, {"ISIG", "IEXTEN"}, 1, 1),
      \* character-at-a-time input with a read timeout
      TermiosOf({"IGNCR"}, {},
                {"CS7"}, {"ECHO"}, 0, 1),
      \* already raw
      TermiosOf({}, {"OPOST"},
                CS8, {}, 0, 0) }

Win32Modes ==
    [ out : { {"ENABLE_PROCESSED_OUTPUT", "ENABLE_WRAP_AT_EOL_OUTPUT"},
              {"ENABLE_PROCESSED_OUTPUT", "ENABLE_VIRTUAL_TERMINAL_PROCESSING"} },
      in  : { {"ENABLE_PROCESSED_INPUT", "ENABLE_LINE_INPUT",
               "ENABLE_ECHO_INPUT", "ENABLE_MOUSE_INPUT"},
              {"ENABLE_PROCESSED_INPUT"},
              {"ENABLE_VIRTUAL_TERMINAL_INPUT"} } ]

InitModes(p) == IF p = "posix" THEN PosixModes ELSE Win32Modes

\* The value of a member that has not been assigned.
Uninit == [uninit |-> TRUE]

--------------------------------------------------------------------------
(* The constructor's derivations. *)

\* A derivation that leaves c_cc[VMIN] and c_cc[VTIME] as they were.
raw_keeps_cc(orig_termios, disable_ctrl_c) ==
    LET r1 == [orig_termios EXCEPT !.c_iflag = @ \ RawIflagOff]
        r2 == [r1 EXCEPT !.c_cflag = @ \cup CS8]
        r3 == [r2 EXCEPT !.c_lflag = @ \ RawLflagOff]
    IN  IF disable_ctrl_c THEN [r3 EXCEPT !.c_lflag = @ \ {"ISIG"}] ELSE r3

\* A derivation with the line raw.c_oflag &= ~(OPOST) in effect.
raw_clears_opost(orig_termios, disable_ctrl_c) ==
    LET r1 == [orig_termios EXCEPT !.c_iflag = @ \ RawIflagOff]
        r1o == [r1 EXCEPT !.c_oflag = @ \ {"OPOST"}]
        r2 == [r1o EXCEPT !.c_cflag = @ \cup CS8]
        r3 == [r2 EXCEPT !.c_lflag = @ \ RawLflagOff]
        r4 == IF disable_ctrl_c THEN [r3 EXCEPT !.c_lflag = @ \ {"ISIG"}]
                                ELSE r3
    IN  [r4 EXCEPT !.VMIN = 0, !.VTIME = 0]

\* struct termios raw = orig_termios; ... raw.c_cc[VTIME] = 0;
raw(orig_termios, disable_ctrl_c) ==
    LET r1 == [orig_termios EXCEPT !.c_iflag = @ \ RawIflagOff]
        \* raw.c_oflag &= ~(OPOST) is commented out in the source
        r2 == [r1 EXCEPT !.c_cflag = @ \cup CS8]
        r3 == [r2 EXCEPT !.c_lflag = @ \ RawLflagOff]
        r4 == IF disable_ctrl_c THEN [r3 EXCEPT !.c_lflag = @ \ {"ISIG"}]
                                ELSE r3
    IN  [r4 EXCEPT !.VMIN = 0, !.VTIME = 0]

\* DWORD dwOutMode = dwOriginalOutMode | dwRequestedOutModes;
dwOutMode(dwOriginalOutMode) == dwOriginalOutMode \cup dwRequestedOutModes

\* A derivation that turns off line input only and leaves echo on.
dwInMode_keeps_echo(dwOriginalInMode) ==
    (dwOriginalInMode \cup dwRequestedInModes) \ {"ENABLE_LINE_INPUT"}

\* DWORD dwInMode = dwOriginalInMode | dwRequestedInModes;
\* dwInMode &= ~(ENABLE_LINE_INPUT | ENABLE_ECHO_INPUT);
dwInMode(dwOriginalInMode) ==
    (dwOriginalInMode \cup dwRequestedInModes) \ InModesOff

\* The OS calls the constructor makes, in order; one of them may be the
\* call that fails.
CtorFailPoints(p) ==
    IF p = "posix"
    THEN {"none", "tcgetattr", "tcsetattr"}
    ELSE {"none", "GetStdHandle_out", "GetStdHandle_in",
          "GetConsoleMode_out", "GetConsoleMode_in",
          "SetConsoleMode_out", "SetConsoleMode_in"}

\* A constructor that fills the saved members after it has set the new
\* mode, so that they hold the raw mode.
BaseTerminal_saves_raw(p, t, q, disable_ctrl_c, fail) ==
    IF p = "win32"
    THEN IF fail \in {"GetStdHandle_out", "GetStdHandle_in", "GetConsoleMode_out",
                      "GetConsoleMode_in", "SetConsoleMode_out"}
         THEN [threw |-> TRUE, term |-> t, inq |-> q,
               orig |-> [out |-> Uninit, in |-> Uninit]]
         ELSE IF fail = "SetConsoleMode_in"
         THEN [threw |-> TRUE, term |-> [t EXCEPT !.out = dwOutMode(t.out)],
               inq |-> q, orig |-> [out |-> Uninit, in |-> Uninit]]
         ELSE [threw |-> FALSE,
               term |-> [out |-> dwOutMode(t.out), in |-> dwInMode(t.in)],
               inq |-> q,
               orig |-> [out |-> dwOutMode(t.out), in |-> dwInMode(t.in)]]
    ELSE IF fail \in {"tcgetattr", "tcsetattr"}
         THEN [threw |-> TRUE, term |-> t, inq |-> q, orig |-> Uninit]
         ELSE [threw |-> FALSE, term |-> raw(t, disable_ctrl_c),
               inq |-> <<>>, orig |-> raw(t, disable_ctrl_c)]

(* BaseTerminal::BaseTerminal(bool disable_ctrl_c).  t is the terminal's   *)
(* mode and q its input queue when the constructor starts; fail names the  *)
(* OS call that fails.  The result gives the terminal afterwards, the      *)
(* saved members, and whether the constructor threw.                       *)
BaseTerminal(p, t, q, disable_ctrl_c, fail) ==
    IF p = "win32"
    THEN IF fail \in {"GetStdHandle_out", "GetStdHandle_in", "GetConsoleMode_out"}
         THEN [threw |-> TRUE, term |-> t, inq |-> q,
               orig |-> [out |-> Uninit, in |-> Uninit]]
         ELSE IF fail = "GetConsoleMode_in"
         THEN [threw |-> TRUE, term |-> t, inq |-> q,
               orig |-> [out |-> t.out, in |-> Uninit]]
         ELSE IF fail = "SetConsoleMode_out"
         THEN [threw |-> TRUE, term |-> t, inq |-> q,
               orig |-> [out |-> t.out, in |-> t.in]]
         ELSE IF fail = "SetConsoleMode_in"
         \* the output mode was already set; the throw leaves it set
         THEN [threw |-> TRUE, term |-> [t EXCEPT !.out = dwOutMode(t.out)],
               inq |-> q, orig |-> [out |-> t.out, in |-> t.in]]
         ELSE [threw |-> FALSE,
               term |-> [out |-> dwOutMode(t.out), in |-> dwInMode(t.in)],
               inq |-> q, orig |-> [out |-> t.out, in |-> t.in]]
    ELSE IF fail = "tcgetattr"
         THEN [threw |-> TRUE, term |-> t, inq |-> q, orig |-> Uninit]
         ELSE IF fail = "tcsetattr"
         THEN [threw |-> TRUE, term |-> t, inq |-> q, orig |-> t]
         \* TCSAFLUSH: input received but not read is discarded
         ELSE [threw |-> FALSE, term |-> raw(t, disable_ctrl_c),
               inq |-> <<>>, orig |-> t]

--------------------------------------------------------------------------
(* The destructor. *)

DtorFailPoints(p) ==
    IF p = "posix" THEN {"none", "tcsetattr"}
                   ELSE {"none", "SetConsoleMode_out", "SetConsoleMode_in"}

\* A destructor that returns without re-applying the saved mode.
dtor_no_restore(p, t, q, orig, fail) ==
    [threw |-> FALSE, term |-> t, inq |-> q, calls |-> 0]

\* A destructor that ignores the result of the mode-setting calls.
dtor_unchecked(p, t, q, orig, fail) ==
    IF p = "win32"
    THEN [threw |-> FALSE,
          term |-> [out |-> IF fail = "SetConsoleMode_out" THEN t.out
                                                           ELSE orig.out,
                    in |-> IF fail = "SetConsoleMode_in" THEN t.in
                                                         ELSE orig.in],
          inq |-> q, calls |-> 2]
    ELSE IF fail = "tcsetattr"
         THEN [threw |-> FALSE, term |-> t, inq |-> q, calls |-> 1]
         ELSE [threw |-> FALSE, term |-> orig, inq |-> <<>>, calls |-> 1]

(* BaseTerminal::~BaseTerminal() noexcept(false).  orig holds the saved    *)
(* members; the result gives the terminal afterwards, whether the          *)
(* destructor threw, and the number of mode-setting calls it issued.       *)
dtor_BaseTerminal(p, t, q, orig, fail) ==
    IF p = "win32"
    THEN IF fail = "SetConsoleMode_out"
         THEN [threw |-> TRUE, term |-> t, inq |-> q, calls |-> 1]
         ELSE IF fail = "SetConsoleMode_in"
         THEN [threw |-> TRUE, term |-> [t EXCEPT !.out = orig.out],
               inq |-> q, calls |-> 2]
         ELSE [threw |-> FALSE, term |-> [out |-> orig.out, in |-> orig.in],
               inq |-> q, calls |-> 2]
    ELSE IF fail = "tcsetattr"
         THEN [threw |-> TRUE, term |-> t, inq |-> q, calls |-> 1]
         ELSE [threw |-> FALSE, term |-> orig, inq |-> <<>>, calls |-> 1]

--------------------------------------------------------------------------
(* The terminal driver: what a key press puts in the input queue under a   *)
(* given mode, and when the read primitive has data to deliver.            *)

\* The bytes byte b adds to the input queue under mode t, and whether the
\* driver turns it into an interrupt signal instead.
DriverInput(p, t, b) ==
    IF p = "posix"
    THEN LET c == IF "ISTRIP" \in t.c_iflag THEN b % 128 ELSE b
         IN  IF "ISIG" \in t.c_lflag /\ c \in IntrBytes
             THEN [sig |-> TRUE, add |-> <<>>]
             ELSE IF c = 13 /\ "IGNCR" \in t.c_iflag
             THEN [sig |-> FALSE, add |-> <<>>]
             ELSE IF c = 13 /\ "ICRNL" \in t.c_iflag
             THEN [sig |-> FALSE, add |-> <<10>>]
             ELSE [sig |-> FALSE, add |-> <<c>>]
    ELSE IF "ENABLE_PROCESSED_INPUT" \in t.in /\ b \in IntrBytes
         THEN [sig |-> TRUE, add |-> <<>>]
         ELSE [sig |-> FALSE, add |-> <<b>>]

\* A complete line is in the queue (line-buffered modes deliver nothing
\* before the line ends).
HasLine(q, eol) == \E i \in 1..Len(q) : q[i] = eol

\* read() / ReadFile() can deliver a byte now.
Readable(p, t, q) ==
    IF p = "posix"
    THEN IF "ICANON" \in t.c_lflag THEN HasLine(q, 10) ELSE Len(q) > 0
    ELSE IF "ENABLE_LINE_INPUT" \in t.in THEN HasLine(q, 13) ELSE Len(q) > 0

\* The mode in which a POSIX read() never waits: non-canonical with
\* c_cc[VMIN] = 0 and c_cc[VTIME] = 0.  A read that finds nothing returns 0
\* (also when the descriptor is O_NONBLOCK).
Polls(t) == "ICANON" \notin t.c_lflag /\ t.VMIN = 0 /\ t.VTIME = 0

\* A POSIX read() that finds nothing to deliver returns at once: with 0 in
\* the polling mode, with -1 and EAGAIN in any other mode when the
\* descriptor is O_NONBLOCK.
ReturnsAtOnce(t, nonblock) == nonblock \/ Polls(t)

\* A blocked POSIX read() ends by timeout (c_cc[VTIME] with c_cc[VMIN] = 0).
TimesOut(t) == "ICANON" \notin t.c_lflag /\ t.VMIN = 0 /\ t.VTIME > 0

--------------------------------------------------------------------------
(* read_raw *)

\* What the OS may answer to a read that does not wait: for read(), no
\* error or an errno other than EAGAIN; for ReadFile(), success with one
\* byte, failure, or success with no byte.
ReadAnswers(p) ==
    IF p = "posix" THEN {"ok", "EIO"}
                   ELSE {"ok", "ReadFile_failed", "nread_0"}

\* How a read that waits inside the OS may end: normally, or (read())
\* interrupted by a signal whose handler was installed without SA_RESTART,
\* or (ReadFile()) failing, or succeeding with no byte.
WakeAnswers(p) ==
    IF p = "posix" THEN {"ok", "EINTR"}
                   ELSE {"ok", "ReadFile_failed", "nread_0"}

\* The answers that are errors of the underlying read.
ReadErrors == {"EIO", "EINTR", "ReadFile_failed"}

\* A read_raw whose POSIX branch returns (nread >= 0) instead of
\* (nread == 1).
read_raw_ge_0(p, t, q, nonblock, ans) ==
    IF p = "win32"
    THEN IF Len(q) > 0
         THEN IF ans \in {"ReadFile_failed", "nread_0"}
              THEN [ret |-> "throw", s |-> -1, inq |-> q, os |-> ans]
              ELSE IF Readable(p, t, q)
              THEN [ret |-> "true", s |-> Head(q), inq |-> Tail(q),
                    os |-> "nread_1"]
              ELSE [ret |-> "block", s |-> -1, inq |-> q, os |-> "waiting"]
         ELSE [ret |-> "true", s |-> -1, inq |-> q, os |-> "not_called"]
    ELSE IF ans # "ok"
         THEN [ret |-> "throw", s |-> -1, inq |-> q, os |-> ans]
         ELSE IF Readable(p, t, q)
         THEN [ret |-> "true", s |-> Head(q), inq |-> Tail(q),
               os |-> "nread_1"]
         ELSE IF ReturnsAtOnce(t, nonblock)
         THEN [ret |-> IF Polls(t) THEN "true" ELSE "false", s |-> -1,
               inq |-> q, os |-> IF Polls(t) THEN "nread_0" ELSE "EAGAIN"]
         ELSE [ret |-> "block", s |-> -1, inq |-> q, os |-> "waiting"]

\* A read_raw without the error checks: a failed read() or ReadFile() is
\* returned as false.
read_raw_unchecked(p, t, q, nonblock, ans) ==
    IF p = "win32"
    THEN IF Len(q) > 0
         THEN IF ans \in {"ReadFile_failed", "nread_0"}
              THEN [ret |-> "false", s |-> -1, inq |-> q, os |-> ans]
              ELSE IF Readable(p, t, q)
              THEN [ret |-> "true", s |-> Head(q), inq |-> Tail(q),
                    os |-> "nread_1"]
              ELSE [ret |-> "block", s |-> -1, inq |-> q, os |-> "waiting"]
         ELSE [ret |-> "false", s |-> -1, inq |-> q, os |-> "not_called"]
    ELSE IF ans # "ok"
         THEN [ret |-> "false", s |-> -1, inq |-> q, os |-> ans]
         ELSE IF Readable(p, t, q)
         THEN [ret |-> "true", s |-> Head(q), inq |-> Tail(q),
               os |-> "nread_1"]
         ELSE IF ReturnsAtOnce(t, nonblock)
         THEN [ret |-> "false", s |-> -1, inq |-> q,
               os |-> IF Polls(t) THEN "nread_0" ELSE "EAGAIN"]
         ELSE [ret |-> "block", s |-> -1, inq |-> q, os |-> "waiting"]

\* A read that discards the pending input when it has no byte to return.
read_raw_flushes(p, t, q, nonblock, ans) ==
    IF p = "win32"
    THEN IF Len(q) > 0
         THEN IF ans \in {"ReadFile_failed", "nread_0"}
              THEN [ret |-> "throw", s |-> -1, inq |-> q, os |-> ans]
              ELSE IF Readable(p, t, q)
              THEN [ret |-> "true", s |-> Head(q), inq |-> Tail(q),
                    os |-> "nread_1"]
              ELSE [ret |-> "block", s |-> -1, inq |-> q, os |-> "waiting"]
         ELSE [ret |-> "false", s |-> -1, inq |-> <<>>, os |-> "not_called"]
    ELSE IF ans # "ok"
         THEN [ret |-> "throw", s |-> -1, inq |-> q, os |-> ans]
         ELSE IF Readable(p, t, q)
         THEN [ret |-> "true", s |-> Head(q), inq |-> Tail(q),
               os |-> "nread_1"]
         ELSE IF ReturnsAtOnce(t, nonblock)
         THEN [ret |-> "false", s |-> -1, inq |-> <<>>,
               os |-> IF Polls(t) THEN "nread_0" ELSE "EAGAIN"]
         ELSE [ret |-> "block", s |-> -1, inq |-> q, os |-> "waiting"]

(* bool BaseTerminal::read_raw(char* s) const.  t, q: the terminal's mode  *)
(* and input queue; nonblock: O_NONBLOCK on stdin; ans: the OS's answer.   *)
(* ret is "true"/"false" (the return value), "throw", or "block" (the call *)
(* is waiting inside the OS read).  s is the byte stored through the       *)
(* pointer (-1: nothing stored).  os is what the underlying read reported  *)
(* ("not_called": kbhit() was false and ReadFile() was not called).        *)
read_raw(p, t, q, nonblock, ans) ==
    IF p = "win32"
    THEN IF Len(q) > 0                                   \* kbhit()
         THEN IF ans = "ReadFile_failed"
              THEN [ret |-> "throw", s |-> -1, inq |-> q, os |-> ans]
              ELSE IF ans = "nread_0"
              \* "kbhit() and ReadFile() inconsistent"
              THEN [ret |-> "throw", s |-> -1, inq |-> q, os |-> ans]
              ELSE IF Readable(p, t, q)
              THEN [ret |-> "true", s |-> Head(q), inq |-> Tail(q),
                    os |-> "nread_1"]
              ELSE [ret |-> "block", s |-> -1, inq |-> q, os |-> "waiting"]
         ELSE [ret |-> "false", s |-> -1, inq |-> q, os |-> "not_called"]
    ELSE IF ans # "ok"                 \* nread == -1 && errno != EAGAIN
         THEN [ret |-> "throw", s |-> -1, inq |-> q, os |-> ans]
         ELSE IF Readable(p, t, q)                      \* nread == 1
         THEN [ret |-> "true", s |-> Head(q), inq |-> Tail(q),
               os |-> "nread_1"]
         ELSE IF ReturnsAtOnce(t, nonblock)    \* nread == 0, or -1/EAGAIN
         THEN [ret |-> "false", s |-> -1, inq |-> q,
               os |-> IF Polls(t) THEN "nread_0" ELSE "EAGAIN"]
         ELSE [ret |-> "block", s |-> -1, inq |-> q, os |-> "waiting"]

(* The end of a read_raw call that was waiting inside the OS read: the    *)
(* read failed (nread == -1, errno != EAGAIN; ReadFile() false), data      *)
(* arrived (nread == 1), or the VTIME timer ran out (nread == 0).          *)
read_raw_wake(p, t, q, ans) ==
    IF ans # "ok"
    THEN [ret |-> "throw", s |-> -1, inq |-> q, os |-> ans]
    ELSE IF Readable(p, t, q)
    THEN [ret |-> "true", s |-> Head(q), inq |-> Tail(q), os |-> "nread_1"]
    ELSE [ret |-> "false", s |-> -1, inq |-> q, os |-> "nread_0"]

--------------------------------------------------------------------------
(* get_term_size *)

\* Window sizes the terminal may have (rows, columns); 0 is degenerate.
WinSizes == { [row |-> 24, col |-> 80], [row |-> 50, col |-> 132],
              [row |-> 24, col |-> 0], [row |-> 0, col |-> 80] }

\* What an uninitialised SHORT may hold.
Indeterminate == -32768 .. 32767

\* What the uninitialised inf.srWindow may hold.
JunkInfo == [Left : Indeterminate, Top : Indeterminate,
             Right : Indeterminate, Bottom : Indeterminate]

\* Contents of the uninitialised inf.srWindow, at least one for each
\* combination of signs of Bottom - Top + 1 and Right - Left + 1; none of
\* them but the first is the window of any size in WinSizes.  Whatever the
\* structure holds, the call returns a pair with the SizeFacts (below) of
\* one of these or of the window's own size.
JunkCases ==
    { [Left |-> 0, Top |-> 0, Right |-> 79, Bottom |-> 23],
      [Left |-> 0, Top |-> 0, Right |-> 0, Bottom |-> 0],
      [Left |-> 0, Top |-> 0, Right |-> 0, Bottom |-> 1],
      [Left |-> 1, Top |-> 0, Right |-> 0, Bottom |-> 0],
      [Left |-> -8, Top |-> 29, Right |-> -35, Bottom |-> 0],
      [Left |-> -11282, Top |-> 32767, Right |-> 0, Bottom |-> -23920],
      [Left |-> 701, Top |-> 32767, Right |-> 0, Bottom |-> -28016],
      [Left |-> 32767, Top |-> -32768, Right |-> -32768, Bottom |-> 32767],
      [Left |-> 32767, Top |-> 32767, Right |-> -32768, Bottom |-> -32768],
      [Left |-> -32768, Top |-> -32768, Right |-> 32767, Bottom |-> 32767] }

SizeAnswers(p) ==
    IF p = "posix" THEN {"ok", "ioctl_failed"}
                   ELSE {"ok", "GetConsoleScreenBufferInfo_failed"}

\* inf.srWindow of a console window of the given size, with its top left
\* corner at the buffer's origin.
srWindow(ws) ==
    [Left |-> 0, Top |-> 0, Right |-> ws.col - 1, Bottom |-> ws.row - 1]

(* void BaseTerminal::get_term_size(int& rows, int& cols) const.  ws: the  *)
(* window's size; ans: the OS's answer; junk: the content of the           *)
(* uninitialised CONSOLE_SCREEN_BUFFER_INFO when the call that should fill *)
(* it fails (its result is not checked).                                   *)
get_term_size(p, ws, ans, junk) ==
    IF p = "win32"
    THEN LET inf == IF ans = "ok" THEN srWindow(ws) ELSE junk
         IN  [ret |-> "return",
              cols |-> inf.Right - inf.Left + 1,
              rows |-> inf.Bottom - inf.Top + 1]
    ELSE IF ans = "ioctl_failed" \/ ws.col = 0
         THEN [ret |-> "throw", cols |-> -1, rows |-> -1]
         ELSE [ret |-> "return", cols |-> ws.col, rows |-> ws.row]

\* What is recorded of the pair r a get_term_size call left in rows and
\* cols while the window's size was ws: whether each is greater than zero
\* and whether the pair is the window's size.
SizeFacts(r, ws) ==
    [rows_positive |-> r.rows > 0,
     cols_positive |-> r.cols > 0,
     current |-> r.rows = ws.row /\ r.cols = ws.col]

--------------------------------------------------------------------------
(* State. *)

VARIABLES
    platform,        \* the branch of the header that was compiled
    guarded,         \* the code using the object is inside a try/catch block
    nonblock,        \* O_NONBLOCK is set on stdin (POSIX)
    disable_ctrl_c,  \* the constructor's argument
    term,            \* the terminal's mode (termios, or the two console modes)
    inq,             \* the terminal's input queue: bytes received, not yet read
    ws,              \* the terminal's window size
    st,              \* the object: "Unopened", "Active", "Restored", "Failed"
    orig,            \* orig_termios, or dwOriginalOutMode and dwOriginalInMode
    flow,            \* the using code: "normal", "blocked" (inside the OS read),
                     \* "unwinding" (an exception propagates to a handler),
                     \* "uncaught" (an exception with no handler),
                     \* "terminated" (std::terminate), "killed" (by a signal)
    term0,           \* the terminal's mode when the program started
    releases,        \* destructor runs so far
    restores,        \* destructor runs that issued a mode-setting call
    last,            \* the last call and what it gave
    dtor_calls,      \* mode-setting calls the last destructor run issued
    st2,             \* a second object, constructed while the first is live
    orig2,           \* the second object's saved members
    relog            \* what happened to the two objects once both
                     \* existed, in order: <<event, returned normally>>

vars == <<platform, guarded, nonblock, disable_ctrl_c, term, inq, ws, st, orig,
          flow, term0, releases, restores, last, dtor_calls, st2, orig2, relog>>

config == <<platform, guarded, nonblock, disable_ctrl_c, term0>>

\* The second object and the log of destructor runs (used when two objects
\* are nested).
second == <<st2, orig2, relog>>

\* A call, how it ended, the value it gave (the byte read, <<rows, cols>>,
\* or for a destructor run what started it) and what the OS answered.
Ev(op, ret, val, os) ==
    [op |-> op, ret |-> ret, val |-> val, os |-> os, env |-> FALSE]

\* The environment acts: the last event of the program is no longer the
\* last step.
EnvStep == [last EXCEPT !.env = TRUE]

NoEv(op, ret) == Ev(op, ret, -1, "none")

Init ==
    /\ platform \in Platforms
    /\ guarded \in BOOLEAN
    /\ nonblock \in (IF platform = "posix" THEN BOOLEAN ELSE {FALSE})
    /\ disable_ctrl_c \in BOOLEAN
    /\ term \in InitModes(platform)
    /\ inq = <<>>
    /\ ws = [row |-> 24, col |-> 80]
    /\ st = "Unopened"
    /\ orig = Uninit
    /\ flow = "normal"
    /\ term0 = term
    /\ releases = 0
    /\ restores = 0
    /\ last = NoEv("none", "none")
    /\ dtor_calls = 0
    /\ st2 = "Unopened"
    /\ orig2 = Uninit
    /\ relog = <<>>

\* Where an exception thrown while the object is live goes.
Thrown == IF guarded THEN "unwinding" ELSE "uncaught"

\* Where an exception thrown while no object is live leaves the using
\* code: in its handler, or, without one, in std::terminate.
ThrownNoObject == IF guarded THEN "normal" ELSE "terminated"

--------------------------------------------------------------------------
(* Actions. *)

\* BaseTerminal term(disable_ctrl_c);
Construct(fail) ==
    /\ st = "Unopened" /\ flow = "normal"
    /\ LET r == BaseTerminal(platform, term, inq, disable_ctrl_c, fail)
       IN  /\ term' = r.term
           /\ inq' = r.inq
           /\ orig' = r.orig
           /\ st' = IF r.threw THEN "Failed" ELSE "Active"
           /\ last' = Ev("construct", IF r.threw THEN "throw" ELSE "return",
                        -1, fail)
           /\ flow' = IF r.threw THEN ThrownNoObject ELSE "normal"
    /\ UNCHANGED <<config, second, ws, releases, restores, dtor_calls>>

\* One run of the destructor's body; ret is how the run ends.
RunDtor(fail, cause, ret_throw, flow_throw) ==
    LET r == dtor_BaseTerminal(platform, term, inq, orig, fail)
    IN  /\ term' = r.term
        /\ inq' = r.inq
        /\ st' = "Restored"
        /\ releases' = releases + 1
        /\ restores' = restores + (IF r.calls > 0 THEN 1 ELSE 0)
        /\ dtor_calls' = r.calls
        /\ last' = Ev("release", IF r.threw THEN ret_throw ELSE "return",
                      cause, fail)
        /\ flow' = IF r.threw THEN flow_throw ELSE "normal"
        /\ UNCHANGED <<config, second, ws, orig>>

\* The object's scope ends normally.  An exception from the destructor
\* goes to the caller's handler, or ends the process when there is none.
ScopeExit(fail) ==
    /\ st = "Active" /\ flow = "normal"
    /\ RunDtor(fail, "scope_exit", "throw",
               IF guarded THEN "normal" ELSE "terminated")

\* Stack unwinding destroys the object while an exception propagates; an
\* exception leaving the destructor now calls std::terminate.
Unwind(fail) ==
    /\ st = "Active" /\ flow = "unwinding"
    /\ RunDtor(fail, "unwind", "terminate", "terminated")

\* An exception with no handler: std::terminate, and it is
\* implementation-defined whether the stack is unwound first.
Uncaught(fail, unwound) ==
    /\ st = "Active" /\ flow = "uncaught"
    /\ IF unwound
       THEN LET r == dtor_BaseTerminal(platform, term, inq, orig, fail)
            IN  /\ term' = r.term
                /\ inq' = r.inq
                /\ st' = "Restored"
                /\ releases' = releases + 1
                /\ restores' = restores + (IF r.calls > 0 THEN 1 ELSE 0)
                /\ dtor_calls' = r.calls
                /\ last' = Ev("release", "terminate", "uncaught", fail)
       ELSE /\ fail = "none"
            /\ last' = NoEv("none", "terminate")
            /\ UNCHANGED <<term, inq, st, releases, restores, dtor_calls>>
    /\ flow' = "terminated"
    /\ UNCHANGED <<config, second, ws, orig>>

\* The destructor runs again on an object it already ran on (an explicit
\* destructor call before the end of the scope: the object's storage, and
\* so the saved members, are still in place).
ReleaseAgain(fail) ==
    /\ st = "Restored" /\ flow = "normal"
    /\ releases < MaxReleases
    /\ RunDtor(fail, "again", "throw", ThrownNoObject)

\* term.read_raw(&c), on a live object or on one already destroyed.
ReadRaw(ans) ==
    /\ st \in {"Active", "Restored"} /\ flow = "normal"
    /\ LET r == read_raw(platform, term, inq, nonblock, ans)
       IN  /\ inq' = r.inq
           /\ last' = Ev("read_raw", r.ret, r.s, r.os)
           /\ flow' = IF r.ret = "block" THEN "blocked"
                      ELSE IF r.ret # "throw" THEN "normal"
                      ELSE IF st = "Active" THEN Thrown ELSE ThrownNoObject
    /\ UNCHANGED <<config, second, term, ws, st, orig, releases, restores, dtor_calls>>

\* A read_raw call waiting inside the OS read returns.
ReadWake(ans) ==
    /\ flow = "blocked"
    /\ \/ ans # "ok"
       \/ Readable(platform, term, inq)
       \/ platform = "posix" /\ TimesOut(term)
    /\ LET r == read_raw_wake(platform, term, inq, ans)
       IN  /\ inq' = r.inq
           /\ last' = Ev("read_raw", r.ret, r.s, r.os)
           /\ flow' = IF r.ret # "throw" THEN "normal"
                      ELSE IF st = "Active" THEN Thrown ELSE ThrownNoObject
    /\ UNCHANGED <<config, second, term, ws, st, orig, releases, restores, dtor_calls>>

\* term.get_term_size(rows, cols), on a live object or a destroyed one.
GetTermSize(ans, junk) ==
    /\ st \in {"Active", "Restored"} /\ flow = "normal"
    /\ (platform = "win32" /\ ans # "ok" /\ junk \in JunkInfo)
       \/ junk = srWindow(ws)
    /\ LET r == get_term_size(platform, ws, ans, junk)
       IN  /\ last' = Ev("get_term_size", r.ret, SizeFacts(r, ws), ans)
           /\ flow' = IF r.ret # "throw" THEN "normal"
                      ELSE IF st = "Active" THEN Thrown ELSE ThrownNoObject
    /\ UNCHANGED <<config, second, term, inq, ws, st, orig, releases, restores, dtor_calls>>

\* Code unrelated to the terminal throws while the object is live.
UnrelatedThrow ==
    /\ st = "Active" /\ flow = "normal"
    /\ flow' = Thrown
    /\ last' = NoEv("other", "throw")
    /\ UNCHANGED <<config, second, term, inq, ws, st, orig, releases, restores, dtor_calls>>

\* A key press reaches the terminal driver.
Inject(b) ==
    /\ st \in {"Active", "Restored"} /\ flow \in {"normal", "blocked"}
    /\ Len(inq) < MaxPending
    /\ LET d == DriverInput(platform, term, b)
       IN  IF d.sig
           THEN /\ flow' = "killed"       \* default action of the signal
                \* the POSIX driver discards the pending input when it
                \* raises the signal, unless NOFLSH is set
                /\ inq' = IF platform = "posix"
                              /\ "NOFLSH" \notin term.c_lflag
                           THEN <<>> ELSE inq
           ELSE /\ inq' = inq \o d.add
                /\ UNCHANGED flow
    /\ last' = EnvStep
    /\ UNCHANGED <<config, second, term, ws, st, orig, releases, restores, dtor_calls>>

\* The user resizes the terminal window.
Resize(size) ==
    /\ st = "Active" /\ flow = "normal"
    /\ ws # size
    /\ ws' = size
    /\ last' = EnvStep
    /\ UNCHANGED <<config, second, term, inq, st, orig, flow, releases, restores, dtor_calls>>

\* The mode another program leaves the terminal in (it flips one setting
\* this class never touches).
OtherMode(p, t) ==
    IF p = "posix"
    THEN [t EXCEPT !.c_lflag = IF "TOSTOP" \in @ THEN @ \ {"TOSTOP"}
                                                 ELSE @ \cup {"TOSTOP"}]
    ELSE [t EXCEPT !.in = IF "ENABLE_INSERT_MODE" \in @
                          THEN @ \ {"ENABLE_INSERT_MODE"}
                          ELSE @ \cup {"ENABLE_INSERT_MODE"}]

\* Another program changes the terminal's mode after the object was
\* destroyed.
OtherSetMode ==
    /\ st = "Restored" /\ flow = "normal"
    /\ releases < MaxReleases
    /\ term' = OtherMode(platform, term)
    /\ last' = NoEv("other_setmode", "return")
    /\ UNCHANGED <<config, second, inq, ws, st, orig, flow, releases, restores, dtor_calls>>

Next ==
    \/ \E f \in CtorFailPoints(platform) : Construct(f)
    \/ \E f \in DtorFailPoints(platform) : ScopeExit(f)
    \/ \E f \in DtorFailPoints(platform) : Unwind(f)
    \/ \E f \in DtorFailPoints(platform), u \in BOOLEAN : Uncaught(f, u)
    \/ \E f \in DtorFailPoints(platform) : ReleaseAgain(f)
    \/ \E a \in ReadAnswers(platform) : ReadRaw(a)
    \/ \E a \in WakeAnswers(platform) : ReadWake(a)
    \/ \E a \in SizeAnswers(platform), j \in JunkCases \cup {srWindow(ws)} :
            GetTermSize(a, j)
    \/ UnrelatedThrow
    \/ \E b \in Bytes : Inject(b)
    \/ OtherSetMode

Spec == Init /\ [][Next]_vars

\* The same program on a terminal whose window is resized while the object
\* is live.
NextResize ==
    \/ Next
    \/ \E size \in WinSizes : Resize(size)

SpecResize == Init /\ [][NextResize]_vars

--------------------------------------------------------------------------
(* Properties. *)

\* The mode a successful construction leaves the terminal in.
RawMode(p, o, d) ==
    IF p = "posix" THEN raw(o, d)
                   ELSE [out |-> dwOutMode(o.out), in |-> dwInMode(o.in)]

\* The using code has left the object's scope, or the process has ended by
\* std::terminate.
ScopeEnded == st = "Restored" \/ (st = "Active" /\ flow = "terminated")

\* C1: after a destructor run that returns normally the terminal's mode
\* equals, field for field, the mode it had before the constructor changed
\* it, whatever read_raw / get_term_size calls were made in between.
C1_RoundTrip ==
    (last.op = "release" /\ last.ret = "return") => term = term0

\* C1 witness: a session that changed the mode has been released and the
\* original mode is back.
C1_Witness ==
    /\ last.op = "release" /\ last.ret = "return"
    /\ releases = 1
    /\ term = term0
    /\ term0 # RawMode(platform, term0, disable_ctrl_c)

\* C2 as stated: on every exit path of a constructed session (normal end of
\* scope, or an exception thrown while it is live) the restore has been
\* issued exactly once.
C2_ExactlyOnceEveryPath ==
    (ScopeEnded /\ releases <= 1) => restores = 1

\* C2 amended: the restore is issued exactly once when the scope ends
\* normally or by an exception that an enclosing try/catch block catches;
\* without such a block the process ends with the restore issued once or
\* not at all.
C2_ExactlyOnceWhenCaught ==
    /\ (st = "Restored" /\ releases <= 1) => restores = 1
    /\ (flow = "terminated" /\ guarded) => restores = 1
    /\ (flow = "terminated" /\ releases <= 1) => restores \in {0, 1}

\* C2 witness: an exception thrown while the session was live was caught,
\* and unwinding ran the restore once.
C2_Witness ==
    /\ guarded /\ st = "Restored" /\ flow = "normal"
    /\ last.op = "release" /\ last.val = "unwind"
    /\ restores = 1 /\ term = term0
    /\ term0 # RawMode(platform, term0, disable_ctrl_c)

\* C3: a constructor that throws leaves the terminal's mode as it was
\* before construction started.
C3_FailedCtorUnmodified ==
    st = "Failed" => term = term0

\* C4 as stated (for using code inside a try/catch block, as the class
\* comment requires): whenever the OS rejects a restore call, the
\* destructor's error reaches the caller as an exception, in every context
\* in which the destructor runs, a run during stack unwinding included.
C4_ErrorReachesCaller ==
    (guarded /\ last.op = "release" /\ last.os # "none") =>
        last.ret = "throw"

\* C4 amended: a rejected restore never lets the destructor return
\* normally: it throws to the caller, or, when it runs while another
\* exception propagates (or after an uncaught one), the process ends by
\* std::terminate.
C4_NeverSilent ==
    (last.op = "release" /\ last.os # "none") =>
        /\ last.ret \in {"throw", "terminate"}
        /\ last.ret = "throw" => last.val \in {"scope_exit", "again"}
        /\ last.ret = "terminate" => flow = "terminated"

\* C4 witness: the OS rejected the restore while an exception was
\* propagating; the terminal is still in raw mode and the process was
\* ended by std::terminate.
C4_Witness ==
    /\ last.op = "release" /\ last.os # "none" /\ last.val = "unwind"
    /\ last.ret = "terminate" /\ flow = "terminated"
    /\ term # term0

\* C5: a read_raw or get_term_size call on an object whose destructor has
\* run fails with an error: it reads no byte and returns no size.
C5_UseAfterClose ==
    (st = "Restored" /\ last.op \in {"read_raw", "get_term_size"}) =>
        last.ret = "throw"

\* C6: a second destructor run on the same object is a no-op: it raises no
\* error and writes nothing to the terminal (mode and input queue stay as
\* they are, also when another program changed the mode in between).
C6_IdempotentRelease ==
    [][(\E f \in DtorFailPoints(platform) : ReleaseAgain(f)) =>
          (term' = term /\ inq' = inq /\ last'.ret = "return")]_vars

\* A read_raw call on a live object.
ActiveRead == st = "Active" /\ \E a \in ReadAnswers(platform) : ReadRaw(a)

\* C7 (for a session constructed with disable_ctrl_c = true): every byte
\* that reaches the terminal while the session is live is appended to the
\* input queue unchanged, none dropped, and read_raw hands the queue out
\* head first, one byte per call.
C7_ByteFidelity ==
    [][/\ \A b \in Bytes :
            (st = "Active" /\ disable_ctrl_c /\ Inject(b)) =>
                (inq' = Append(inq, b) /\ flow' = flow)
       /\ (ActiveRead /\ last'.ret = "true") =>
                (last'.val = Head(inq) /\ inq' = Tail(inq))]_vars

\* C8: on a live object, read_raw returns true with the head byte of the
\* input queue only when a byte was pending and false only when none was;
\* a call that returns true removes exactly that byte, a call that returns
\* false or throws removes none.
C8_ReadResult ==
    [][ActiveRead =>
          /\ last'.ret = "true" =>
                (Len(inq) > 0 /\ last'.val = Head(inq) /\ inq' = Tail(inq))
          /\ last'.ret = "false" => Len(inq) = 0
          /\ last'.ret \in {"false", "throw"} => inq' = inq]_vars

\* C8 witness: a call on a live object returned true and took one byte of
\* two that were pending.
C8_Witness ==
    /\ st = "Active" /\ flow = "normal"
    /\ last.op = "read_raw" /\ last.ret = "true" /\ last.val \in Bytes
    /\ Len(inq) = 1

\* C9 as stated: on a live object read_raw throws exactly when the
\* underlying read reported an error other than "no data available".
C9_ThrowsIffReadError ==
    [][ActiveRead => (last'.ret = "throw" <=> last'.os \in ReadErrors)]_vars

\* C9 amended: read_raw throws exactly when the underlying read reported an
\* error other than "no data available" or, on the console platform, when
\* kbhit() reported a key and ReadFile() succeeded without delivering a
\* byte; "no data available" alone gives false, and a read error is never
\* returned as false or true.
C9_ErrorClassification ==
    [][ActiveRead =>
          /\ last'.ret = "throw" <=>
                \/ last'.os \in ReadErrors
                \/ platform = "win32" /\ last'.os = "nread_0"
          /\ (\/ last'.os \in {"EAGAIN", "not_called"}
              \/ platform = "posix" /\ last'.os = "nread_0")
                => last'.ret = "false"
          /\ last'.os \in ReadErrors => last'.ret \notin {"true", "false"}]_vars

\* C9 witness: on a live object with O_NONBLOCK set on stdin read() found
\* no data (it returned 0) and read_raw returned false.
C9_Witness ==
    /\ st = "Active" /\ flow = "normal" /\ platform = "posix" /\ nonblock
    /\ last.op = "read_raw" /\ last.os = "nread_0" /\ last.ret = "false"

\* C10: on a live object the terminal is configured so that a read never
\* waits (POSIX: c_cc[VMIN] = 0 and c_cc[VTIME] = 0 with ICANON off;
\* console: ENABLE_LINE_INPUT off), no read_raw call is ever waiting inside
\* the OS read, and a call made with an empty input queue returns false in
\* that one step unless the read itself reports an error.
C10_NonBlocking ==
    /\ [](st = "Active" =>
            /\ flow # "blocked"
            /\ platform = "posix" =>
                 (term.VMIN = 0 /\ term.VTIME = 0
                    /\ "ICANON" \notin term.c_lflag)
            /\ platform = "win32" => "ENABLE_LINE_INPUT" \notin term.in)
    /\ [][ActiveRead =>
            /\ last'.ret # "block" /\ flow' # "blocked"
            /\ (inq = <<>> /\ last'.os \notin ReadErrors) =>
                  last'.ret = "false"]_vars

\* C10 witness: the terminal was in a blocking mode before construction,
\* and a read_raw call on the live object with nothing pending returned
\* false.
C10_Witness ==
    /\ st = "Active" /\ flow = "normal" /\ platform = "posix" /\ ~nonblock
    /\ term0.VMIN = 1 /\ "ICANON" \in term0.c_lflag
    /\ last.op = "read_raw" /\ last.ret = "false" /\ inq = <<>>

--------------------------------------------------------------------------
(* The window size. *)

\* A get_term_size call on the live object: the step ends with that call
\* as the program's last event and is not a step of the environment.
ActiveSize ==
    st = "Active" /\ last'.op = "get_term_size" /\ ~last'.env

\* C11: every get_term_size call on the live object that returns gives
\* rows > 0 and cols > 0: never a zero, a negative or an uninitialised
\* value.
C11_SizePositive ==
    [][(ActiveSize /\ last'.ret = "return")
            => (last'.val.rows_positive /\ last'.val.cols_positive)]_vars

\* C12: get_term_size on the live object throws whenever the OS's size
\* query fails and whenever the window is zero columns wide; in neither
\* case does it return a pair.
C12_SizeFailureThrows ==
    [][(ActiveSize /\ (last'.os # "ok" \/ ws.col = 0))
            => last'.ret = "throw"]_vars

--------------------------------------------------------------------------
(* Signals. *)

\* Whether the terminal turns the interrupt key into a signal in mode t.
SignalGeneration(p, t) ==
    IF p = "posix" THEN "ISIG" \in t.c_lflag
                   ELSE "ENABLE_PROCESSED_INPUT" \in t.in

\* C13: on a live object constructed with disable_ctrl_c = true the
\* terminal generates no signal for the interrupt key (the key is queued
\* as an ordinary byte and the process is never killed by it); constructed
\* with disable_ctrl_c = false, signal generation is as in the original
\* mode.
C13_SignalToggle ==
    st = "Active" =>
        /\ disable_ctrl_c =>
              /\ ~SignalGeneration(platform, term)
              /\ \A b \in IntrBytes :
                    DriverInput(platform, term, b) = [sig |-> FALSE,
                                                      add |-> <<b>>]
              /\ flow # "killed"
        /\ ~disable_ctrl_c =>
              SignalGeneration(platform, term)
                  = SignalGeneration(platform, term0)

--------------------------------------------------------------------------
(* The saved mode and the mode in effect while the object is live. *)

\* C14: the saved members are filled before the constructor's first write
\* to the terminal and never change afterwards: as long as the object is
\* live they equal the terminal's mode at the moment of capture, whatever
\* read_raw and get_term_size calls (failing ones included) were made.
C14_OriginalImmutable ==
    st = "Active" => orig = term0

\* A live object whose last read_raw or get_term_size call failed, on a
\* terminal whose mode the constructor changed: the saved members still
\* hold the mode from before the change.
C14_Witness ==
    /\ st = "Active" /\ orig = term0 /\ term # term0
    /\ last.op \in {"read_raw", "get_term_size"} /\ last.ret = "throw"

\* C15: construction changes no output-side setting: in every state with
\* a live object the terminal's output flags (newline translation, output
\* post-processing) equal those of the original mode, on both platforms.
C15_OutputUntouched ==
    st = "Active" =>
        IF platform = "posix" THEN term.c_oflag = term0.c_oflag
                              ELSE term.out = term0.out

\* C15 (amended): on POSIX construction changes no output flag (c_oflag,
\* OPOST included, is as in the original mode); on the console it sets
\* ENABLE_VIRTUAL_TERMINAL_PROCESSING and DISABLE_NEWLINE_AUTO_RETURN in
\* the output mode and changes no other output flag.
C15_OutputOnlyRequestedModes ==
    st = "Active" =>
        IF platform = "posix"
        THEN term.c_oflag = term0.c_oflag
        ELSE term.out = term0.out
                \cup {"ENABLE_VIRTUAL_TERMINAL_PROCESSING",
                      "DISABLE_NEWLINE_AUTO_RETURN"}

\* A live object on a POSIX terminal whose input flags the constructor
\* changed and whose output post-processing is still on.
C15_Witness ==
    /\ st = "Active" /\ platform = "posix"
    /\ "OPOST" \in term0.c_oflag /\ "OPOST" \in term.c_oflag
    /\ term.c_lflag # term0.c_lflag

\* C16: get_term_size is current, not cached: whatever the window's size
\* was at construction or at an earlier call, each call on the live object
\* that returns gives the size the window has at the moment of that call.
C16_SizeCurrent ==
    [][(ActiveSize /\ last'.ret = "return")
            => last'.val.current]_vars

--------------------------------------------------------------------------
(* The object's life cycle. *)

\* The mode-setting calls a complete restore issues: one per saved member.
SavedParts(p) == IF p = "posix" THEN 1 ELSE 2

\* C17: the object becomes live only through a construction that
\* succeeded in full; it goes from live to restored at most once; when a
\* destructor run has finished, normally or with an error, the object is
\* not live and every part of the saved mode has been attempted to be
\* re-applied; a restored object never becomes anything else.
C17_Lifecycle ==
    /\ [][(st' = "Active" /\ st # "Active")
            => (st = "Unopened" /\ last'.op = "construct"
                /\ last'.ret = "return")]_vars
    /\ [][st = "Restored" => st' = "Restored"]_vars
    /\ [](last.op = "release"
            => (st # "Active" /\ dtor_calls = SavedParts(platform)))

\* The flags that differ between two flag words.
Changed(a, b) == (a \ b) \cup (b \ a)

\* The POSIX half of C18: the live terminal's termios against the saved
\* one, field by field.
PosixDerived ==
    /\ term.c_iflag = orig.c_iflag \ {"BRKINT", "ICRNL", "INPCK", "ISTRIP", "IXON"}
    /\ term.c_oflag = orig.c_oflag
    /\ term.c_cflag = orig.c_cflag \cup {"CS6", "CS7"}
    /\ term.c_lflag \cap {"ECHO", "ICANON", "IEXTEN"} = {}
    /\ Changed(term.c_lflag, orig.c_lflag)
           \subseteq {"ECHO", "ICANON", "IEXTEN"}
                     \cup (IF disable_ctrl_c THEN {"ISIG"} ELSE {})
    /\ term.VMIN = 0 /\ term.VTIME = 0

\* C18: in every state with a live object the terminal's mode is the saved
\* mode with only the listed changes: canonical (line) input, echo,
\* extended input processing and CR-to-NL and related input remapping
\* cleared, 8-bit characters set, signal generation cleared only when
\* disable_ctrl_c, VMIN and VTIME 0; every other field is as saved.
C18_DerivedListedOnly ==
    st = "Active" =>
        IF platform = "posix"
        THEN PosixDerived
        ELSE /\ term.out = orig.out
             /\ term.in \cap {"ENABLE_LINE_INPUT", "ENABLE_ECHO_INPUT"} = {}
             /\ Changed(term.in, orig.in)
                    \subseteq {"ENABLE_LINE_INPUT", "ENABLE_ECHO_INPUT"}
                              \cup (IF disable_ctrl_c
                                    THEN {"ENABLE_PROCESSED_INPUT"} ELSE {})

\* C18 (amended): as C18, and on the console the listed changes are: line
\* input and echo input cleared and ENABLE_VIRTUAL_TERMINAL_INPUT set in
\* the input mode, ENABLE_VIRTUAL_TERMINAL_PROCESSING and
\* DISABLE_NEWLINE_AUTO_RETURN set in the output mode; every other flag is
\* as saved.
C18_DerivedFromOriginal ==
    st = "Active" =>
        IF platform = "posix"
        THEN PosixDerived
        ELSE /\ term.out = orig.out
                    \cup {"ENABLE_VIRTUAL_TERMINAL_PROCESSING",
                          "DISABLE_NEWLINE_AUTO_RETURN"}
             /\ term.in \cap {"ENABLE_LINE_INPUT", "ENABLE_ECHO_INPUT"} = {}
             /\ "ENABLE_VIRTUAL_TERMINAL_INPUT" \in term.in
             /\ Changed(term.in, orig.in)
                    \subseteq {"ENABLE_LINE_INPUT", "ENABLE_ECHO_INPUT",
                               "ENABLE_VIRTUAL_TERMINAL_INPUT"}
                              \cup (IF disable_ctrl_c
                                    THEN {"ENABLE_PROCESSED_INPUT"} ELSE {})

\* A live object on a console that had line input and echo on and
\* virtual-terminal input off, after a read_raw call.
C18_Witness ==
    /\ st = "Active" /\ platform = "win32" /\ last.op = "read_raw"
    /\ {"ENABLE_LINE_INPUT", "ENABLE_ECHO_INPUT"} \subseteq orig.in
    /\ "ENABLE_VIRTUAL_TERMINAL_INPUT" \notin orig.in
    /\ "ENABLE_VIRTUAL_TERMINAL_INPUT" \in term.in
    /\ "ENABLE_ECHO_INPUT" \notin term.in

--------------------------------------------------------------------------
(* What read_raw and get_term_size leave alone. *)

\* A read_raw call, or the end of one that waited inside the OS read.
AnyRead ==
    /\ last'.op = "read_raw"
    /\ \/ \E a \in ReadAnswers(platform) : ReadRaw(a)
       \/ \E a \in WakeAnswers(platform) : ReadWake(a)

\* A get_term_size call, on a live object or a destroyed one, whatever the
\* OS answered and whatever the call computed from: the step ends with
\* that call as the program's last event and is not a step of the
\* environment.
AnySize == last'.op = "get_term_size" /\ ~last'.env

\* C19: read_raw and get_term_size leave the terminal's mode unchanged,
\* whether they return or throw; get_term_size leaves the input queue
\* unchanged, and so does a read_raw call that returns false.
C19_FrameEffect ==
    [][/\ (term' = term /\ inq' = inq) \/ ~AnySize
       /\ (term' = term /\ (inq' = inq \/ last'.ret # "false")) \/ ~AnyRead]_vars

\* A get_term_size call on a live object failed while input was pending:
\* the terminal is still in raw mode and the input is still there.
C19_Witness ==
    /\ st = "Active" /\ last.op = "get_term_size" /\ last.ret = "throw"
    /\ ~last.env /\ inq # <<>>
    /\ term = RawMode(platform, orig, disable_ctrl_c) /\ term # orig

--------------------------------------------------------------------------
(* Two objects, the second constructed while the first is live. *)

\* BaseTerminal term2(d2); while the first object is live.
Construct2(fail, d2) ==
    /\ st = "Active" /\ st2 = "Unopened" /\ flow = "normal"
    /\ LET r == BaseTerminal(platform, term, inq, d2, fail)
       IN  /\ term' = r.term
           /\ inq' = r.inq
           /\ orig2' = r.orig
           /\ st2' = IF r.threw THEN "Failed" ELSE "Active"
           /\ last' = Ev("construct2", IF r.threw THEN "throw" ELSE "return",
                        -1, fail)
           /\ flow' = IF r.threw /\ ~guarded THEN "terminated" ELSE "normal"
    /\ UNCHANGED <<config, ws, st, orig, releases, restores, dtor_calls,
                   relog>>

\* BaseTerminal term2(term); the implicit copy constructor: the second
\* object gets the first one's saved members, and no OS call is made.
Copy2 ==
    /\ st = "Active" /\ st2 = "Unopened" /\ flow = "normal"
    /\ st2' = "Active"
    /\ orig2' = orig
    /\ relog' = Append(relog, <<"copy", TRUE>>)
    /\ last' = NoEv("copy", "return")
    /\ UNCHANGED <<config, term, inq, ws, st, orig, flow, releases, restores,
                   dtor_calls>>

\* term2 = term; or term = term2; the implicit copy assignment: the saved
\* members of one live object are overwritten with the other's.
Assign(to_second) ==
    /\ st = "Active" /\ st2 = "Active" /\ flow = "normal"
    /\ orig # orig2
    /\ IF to_second THEN orig2' = orig /\ UNCHANGED orig
                    ELSE orig' = orig2 /\ UNCHANGED orig2
    /\ relog' = Append(relog, <<"assign", TRUE>>)
    /\ last' = NoEv("assign", "return")
    /\ UNCHANGED <<config, term, inq, ws, st, st2, flow, releases, restores,
                   dtor_calls>>

\* The destructor of the first object runs (whether or not the second one
\* is still live: the two need not be automatic objects of nested scopes).
Destroy1(fail) ==
    /\ st = "Active" /\ flow = "normal"
    /\ LET r == dtor_BaseTerminal(platform, term, inq, orig, fail)
       IN  /\ term' = r.term
           /\ inq' = r.inq
           /\ st' = "Restored"
           /\ releases' = releases + 1
           /\ restores' = restores + (IF r.calls > 0 THEN 1 ELSE 0)
           /\ dtor_calls' = r.calls
           /\ relog' = Append(relog, <<"destroy_first", ~r.threw>>)
           /\ last' = Ev("release", IF r.threw THEN "throw" ELSE "return",
                         "first", fail)
           /\ flow' = IF r.threw /\ ~guarded THEN "terminated" ELSE "normal"
    /\ UNCHANGED <<config, ws, orig, st2, orig2>>

\* The destructor of the second object runs.
Destroy2(fail) ==
    /\ st2 = "Active" /\ flow = "normal"
    /\ LET r == dtor_BaseTerminal(platform, term, inq, orig2, fail)
       IN  /\ term' = r.term
           /\ inq' = r.inq
           /\ st2' = "Restored"
           /\ releases' = releases + 1
           /\ restores' = restores + (IF r.calls > 0 THEN 1 ELSE 0)
           /\ dtor_calls' = r.calls
           /\ relog' = Append(relog, <<"destroy_second", ~r.threw>>)
           /\ last' = Ev("release", IF r.threw THEN "throw" ELSE "return",
                         "second", fail)
           /\ flow' = IF r.threw /\ ~guarded THEN "terminated" ELSE "normal"
    /\ UNCHANGED <<config, ws, st, orig, orig2>>

NextNested ==
    \/ \E f \in CtorFailPoints(platform) : Construct(f)
    \/ \E f \in CtorFailPoints(platform), d2 \in BOOLEAN : Construct2(f, d2)
    \/ Copy2
    \/ \E to_second \in BOOLEAN : Assign(to_second)
    \/ \E f \in DtorFailPoints(platform) : Destroy1(f)
    \/ \E f \in DtorFailPoints(platform) : Destroy2(f)
    \/ \E b \in Bytes : Inject(b)

SpecNested == Init /\ [][NextNested]_vars

\* C20 as stated: with a second object constructed (by BaseTerminal(bool),
\* not as a copy) while the first is live and no assignment between the
\* two, when both destructors have returned normally: if the second was
\* destroyed before the first, the terminal is in the mode it had before
\* the first construction; if the first was destroyed before the second,
\* the terminal is in the first object's raw mode and not in the mode it
\* had before the first construction.
C20_NestedReleaseNotOriginal ==
    /\ relog = << <<"destroy_second", TRUE>>, <<"destroy_first", TRUE>> >>
          => term = term0
    /\ relog = << <<"destroy_first", TRUE>>, <<"destroy_second", TRUE>> >>
          => /\ term = RawMode(platform, term0, disable_ctrl_c)
             /\ term # term0

\* C20, amended: as above, but after first-then-second the terminal is in
\* the first object's raw mode, which is another mode than the original
\* one exactly when the first construction changed the terminal's mode (a
\* terminal that already was in that raw mode is left as it was).
C20_NestedRelease ==
    /\ relog = << <<"destroy_second", TRUE>>, <<"destroy_first", TRUE>> >>
          => term = term0
    /\ relog = << <<"destroy_first", TRUE>>, <<"destroy_second", TRUE>> >>
          => /\ term = RawMode(platform, term0, disable_ctrl_c)
             /\ term # term0
                  <=> RawMode(platform, term0, disable_ctrl_c) # term0

\* Both objects destroyed in reverse order of construction, on a terminal
\* whose mode each construction had changed: the original mode is back.
C20_Witness ==
    /\ relog = << <<"destroy_second", TRUE>>, <<"destroy_first", TRUE>> >>
    /\ st = "Restored" /\ st2 = "Restored"
    /\ orig = term0 /\ orig2 # term0 /\ term = term0

====
